---- MODULE Spec2Model ----
(***************************************************************************)
(* Model of the Nativ Node.js client (src/src/client.ts, src/src/errors.ts, *)
(* src/src/types.ts): construction of the client, the transport helper     *)
(* Nativ.request with its timeout timer, the status-to-error mapping       *)
(* raiseForStatus, the facade operations translate, translateBatch,       *)
(* extractText, culturalizeImage, inspectImage, searchTm, updateTmEntry    *)
(* and deleteTmEntry, the file resolver resolveFile with guessContentType, *)
(* and the response adapters parse* of types.ts.                           *)
(*                                                                         *)
(* The platform (Node 18+ native fetch, timers, promises) is modelled by    *)
(* its standard behaviour: a Response body is a one-shot stream, so         *)
(* resp.text() after a failed resp.json() of a non-empty body rejects;      *)
(* aborting the controller rejects the pending fetch or errors the body     *)
(* stream that is being read.  Base URLs are taken to be well-formed        *)
(* absolute URLs, so that new URL(path, baseUrl) does not throw.            *)
(***************************************************************************)
EXTENDS Integers, Sequences, FiniteSets, TLC

(***************************************************************************)
(* Bounds of the model.                                                    *)
(***************************************************************************)
\* Largest number of texts handed to translateBatch.
MaxTexts == 2

\* The largest number of elements of an array in a modelled response.
MaxItems == 2

\* The largest number of bytes of an ArrayBuffer handed in as a file.
MaxBytes == 2

(***************************************************************************)
(* JavaScript values.                                                      *)
(***************************************************************************)
\* Marks a property that is undefined / a key that is absent.
Absent == "<undefined>"

\* A parsed JSON value, reduced to what the client reads from it.  kind is
\* "object", "null" or "other" (array, number, string, boolean).
JValue(kind, detail, message, translated_text, success) ==
    [kind |-> kind, detail |-> detail, message |-> message,
     translated_text |-> translated_text, success |-> success]

JObject(detail, message, translated_text, success) ==
    JValue("object", detail, message, translated_text, success)

JNull == JValue("null", Absent, Absent, Absent, Absent)

JOther == JValue("other", Absent, Absent, Absent, Absent)

\* No value at all (a promise that has not fulfilled, an error without body).
NoValue == JValue("undefined", Absent, Absent, Absent, Absent)

\* The result of a parse that threw.
ParseFailure == JValue("SyntaxError", Absent, Absent, Absent, Absent)

(***************************************************************************)
(* Response bodies as the server sends them (raw text), and JSON.parse on  *)
(* them.                                                                   *)
(***************************************************************************)
EmptyText == ""

HtmlText == "<html>Bad Gateway</html>"

RawTexts ==
    { "{}",
      "{\"detail\":\"denied\"}",
      "{\"message\":\"slow down\"}",
      "{\"detail\":\"denied\",\"message\":\"slow down\"}",
      "{\"translated_text\":\"Bonjour\"}",
      "{\"success\":true}",
      "null",
      "[1]",
      EmptyText,
      HtmlText }

JsonParse(text) ==
    CASE text = "{}" -> JObject(Absent, Absent, Absent, Absent)
      [] text = "{\"detail\":\"denied\"}" -> JObject("denied", Absent, Absent, Absent)
      [] text = "{\"message\":\"slow down\"}" -> JObject(Absent, "slow down", Absent, Absent)
      [] text = "{\"detail\":\"denied\",\"message\":\"slow down\"}" ->
            JObject("denied", "slow down", Absent, Absent)
      [] text = "{\"translated_text\":\"Bonjour\"}" -> JObject(Absent, Absent, "Bonjour", Absent)
      [] text = "{\"translated_text\":\"Salut\"}" -> JObject(Absent, Absent, "Salut", Absent)
      [] text = "{\"success\":true}" -> JObject(Absent, Absent, Absent, "true")
      [] text = "null" -> JNull
      [] text = "[1]" -> JOther
      [] OTHER -> ParseFailure

(***************************************************************************)
(* Errors (src/src/errors.ts).  The six typed subtypes of NativError carry *)
(* an optional statusCode and an optional body; the platform's own errors  *)
(* (TypeError, AbortError) carry neither.                                  *)
(***************************************************************************)
TypedKinds ==
    { "AuthenticationError", "InsufficientCreditsError", "ValidationError",
      "NotFoundError", "RateLimitError", "ServerError" }

NativError(kind, message, hasOpts, statusCode, body) ==
    [kind |-> kind, message |-> message,
     hasStatus |-> hasOpts, statusCode |-> IF hasOpts THEN statusCode ELSE 0,
     hasBody |-> hasOpts, body |-> IF hasOpts THEN body ELSE NoValue]

\* An error thrown by the runtime or by fetch, not by this library.
PlatformError(kind, message) ==
    [kind |-> kind, message |-> message, hasStatus |-> FALSE, statusCode |-> 0,
     hasBody |-> FALSE, body |-> NoValue]

NoError == PlatformError("none", "")

(***************************************************************************)
(* Promise outcomes.                                                       *)
(***************************************************************************)
Pending == [state |-> "pending", value |-> NoValue, error |-> NoError]

Fulfilled(v) == [state |-> "fulfilled", value |-> v, error |-> NoError]

Rejected(e) == [state |-> "rejected", value |-> NoValue, error |-> e]

(***************************************************************************)
(* raiseForStatus (client.ts 64-84).  Returns the promise outcome of the   *)
(* two lines `raiseForStatus(resp.status, respBody); return respBody;`.    *)
(***************************************************************************)
HttpMessage(status) == "HTTP " \o ToString(status)

\* (body.detail as string) ?? (body.message as string) ?? `HTTP ${status}`
\* for a body that is not null (property access on null throws).
DetailOf(status, body) ==
    IF body.detail # Absent THEN body.detail
    ELSE IF body.message # Absent THEN body.message
    ELSE HttpMessage(status)

excMap(status) ==
    CASE status = 401 -> "AuthenticationError"
      [] status = 402 -> "InsufficientCreditsError"
      [] status = 404 -> "NotFoundError"
      [] status = 429 -> "RateLimitError"
      [] OTHER -> Absent

raiseForStatus(status, body) ==
    IF status >= 200 /\ status < 300 THEN Fulfilled(body)
    ELSE IF body.kind = "null"
         THEN Rejected(PlatformError("TypeError",
                  "Cannot read properties of null (reading 'detail')"))
    ELSE IF excMap(status) # Absent
         THEN Rejected(NativError(excMap(status), DetailOf(status, body),
                                  TRUE, status, body))
    ELSE IF status >= 400 /\ status < 500
         THEN Rejected(NativError("ValidationError", DetailOf(status, body),
                                  TRUE, status, body))
    ELSE Rejected(NativError("ServerError", DetailOf(status, body),
                             TRUE, status, body))

(***************************************************************************)
(* resolveApiKey (client.ts 52-62).  A string option or environment value  *)
(* is [set |-> TRUE, value |-> s]; undefined is [set |-> FALSE, ...].      *)
(***************************************************************************)
Undefined == [set |-> FALSE, value |-> ""]

Str(s) == [set |-> TRUE, value |-> s]

\* JavaScript truthiness of an optional string.
Truthy(v) == v.set /\ v.value # ""

\* a || b
OrElse(a, b) == IF Truthy(a) THEN a ELSE b

MissingKeyMessage ==
    "No API key provided. Pass apiKey in options or set the NATIV_API_KEY environment variable."

\* Variant: the missing-key check is dropped.
resolveApiKey_NoCheck(apiKey, envKey) ==
    [state |-> "fulfilled", value |-> OrElse(apiKey, envKey).value,
     error |-> NoError]

resolveApiKey(apiKey, envKey) ==
    LET key == OrElse(apiKey, envKey)
    IN  IF ~Truthy(key)
        THEN Rejected(NativError("AuthenticationError", MissingKeyMessage,
                                 FALSE, 0, NoValue))
        ELSE [state |-> "fulfilled", value |-> key.value, error |-> NoError]

(***************************************************************************)
(* Response body handling of Nativ.request (client.ts 213-218).            *)
(***************************************************************************)
\* resp.json(): reads the whole body stream, then parses it.  streamOk is
\* FALSE when the stream errors while it is read (abort, connection lost).
respJson(raw, streamOk) == IF streamOk THEN JsonParse(raw) ELSE ParseFailure

\* Whether resp.json() has disturbed the body: a response without a body
\* (null body) stays usable, any body stream that was read does not.
bodyUsedAfterJson(raw) == raw # EmptyText

\* resp.text().catch(() => ""): text() rejects when the body is unusable.
respTextOrEmpty(raw, bodyUsed) == IF bodyUsed THEN "" ELSE raw

\* try { respBody = await resp.json() }
\* catch { respBody = { detail: await resp.text().catch(() => "") } }
readRespBody(raw, streamOk) ==
    LET parsed == respJson(raw, streamOk)
    IN  IF parsed # ParseFailure THEN parsed
        ELSE JObject(respTextOrEmpty(raw, bodyUsedAfterJson(raw)),
                     Absent, Absent, Absent)

(***************************************************************************)
(* JavaScript values as the response shape adapters see them: a tag and,   *)
(* for all but undefined and null, a content.  An object is a function     *)
(* from the keys it has to their values, an array a sequence.  Thrown      *)
(* stands for an expression that threw a TypeError; a value containing it  *)
(* was never built.                                                        *)
(***************************************************************************)
Js(t, s, n, b, o, a) == [t |-> t, s |-> s, n |-> n, b |-> b, o |-> o, a |-> a]

JsUndefined == Js("undefined", "", 0, FALSE, <<>>, <<>>)

JsNull == Js("null", "", 0, FALSE, <<>>, <<>>)

JStr(s) == Js("string", s, 0, FALSE, <<>>, <<>>)

JNum(n) == Js("number", "", n, FALSE, <<>>, <<>>)

JBool(b) == Js("boolean", "", 0, b, <<>>, <<>>)

JObj(members) == Js("object", "", 0, FALSE, members, <<>>)

JArr(elements) == Js("array", "", 0, FALSE, <<>>, elements)

EmptyObject == JObj(<<>>)

Thrown == Js("throw", "", 0, FALSE, <<>>, <<>>)

\* String(v)
String(v) ==
    CASE v.t = "string" -> v.s
      [] v.t = "number" -> ToString(v.n)
      [] v.t = "boolean" -> (IF v.b THEN "true" ELSE "false")
      [] v.t = "undefined" -> "undefined"
      [] v.t = "null" -> "null"
      [] OTHER -> "[object Object]"

\* v.key: reading a property of undefined or null throws.
Get(v, key) ==
    IF v.t \in {"undefined", "null", "throw"} THEN Thrown
    ELSE IF v.t = "object" /\ key \in DOMAIN v.o THEN v.o[key]
    ELSE JsUndefined

\* JavaScript truthiness.
TruthyJs(v) ==
    CASE v.t \in {"undefined", "null", "throw"} -> FALSE
      [] v.t = "string" -> v.s # ""
      [] v.t = "number" -> v.n # 0
      [] v.t = "boolean" -> v.b
      [] OTHER -> TRUE

\* Variant: v || d, which also replaces false, 0 and "".
Nullish_Falsy(v, d) == IF TruthyJs(v) THEN v ELSE d

\* Variant: no default is substituted.
Nullish_None(v, d) == v

\* v ?? d
Nullish(v, d) == IF v.t \in {"undefined", "null"} THEN d ELSE v

\* v.map(f), given the images of the elements of v under f: calling map
\* on a value that is not an array throws.
Map(v, images) == IF v.t = "array" THEN JArr(images) ELSE Thrown

\* v.length of an array
Length(v) == IF v.t = "array" THEN JNum(Len(v.a)) ELSE Thrown

RECURSIVE Threw(_)
Threw(v) ==
    CASE v.t = "throw" -> TRUE
      [] v.t = "object" -> \E k \in DOMAIN v.o : Threw(v.o[k])
      [] v.t = "array" -> \E i \in 1..Len(v.a) : Threw(v.a[i])
      [] OTHER -> FALSE

\* The value a function returns, or Thrown when building it threw.
Returned(v) == IF Threw(v) THEN Thrown ELSE v

(***************************************************************************)
(* Response shape adapters (src/src/types.ts 194-345).                     *)
(***************************************************************************)
\* Variant: every tm_match that is present counts.
hasTmMatch_Present(tmRaw) == TruthyJs(tmRaw)

\* tmRaw && (tmRaw.score ?? 0) > 0   (types.ts 203)
hasTmMatch(tmRaw) ==
    /\ TruthyJs(tmRaw)
    /\ LET score == Nullish(Get(tmRaw, "score"), JNum(0))
       IN  score.t = "number" /\ score.n > 0

\* The element mapping of parseTranslation (types.ts 205-213).
tmMatchDetail(m) ==
    JObj([tmId |-> Nullish(Get(m, "tm_id"), JStr("")),
          score |-> Nullish(Get(m, "score"), JNum(0)),
          matchType |-> Nullish(Get(m, "match_type"), JStr("")),
          sourceText |-> Nullish(Get(m, "source_text"), JStr("")),
          targetText |-> Nullish(Get(m, "target_text"), JStr("")),
          informationSource |-> Nullish(Get(m, "information_source"), JStr("")),
          sourceName |-> Get(m, "source_name")])

parseTranslation(data) ==
    LET metaRaw == Nullish(Get(data, "metadata"), EmptyObject)
        metadata == JObj([wordCount |-> Nullish(Get(metaRaw, "word_count"), JNum(0)),
                          cost |-> Nullish(Get(metaRaw, "cost"), JNum(0))])
        tmRaw == Get(data, "tm_match")
        top == Nullish(Get(tmRaw, "top_matches"), JArr(<<>>))
        tmMatch ==
            IF hasTmMatch(tmRaw)
            THEN JObj([score |-> Nullish(Get(tmRaw, "score"), JNum(0)),
                       matchType |-> Nullish(Get(tmRaw, "match_type"), JStr("")),
                       sourceText |-> Get(tmRaw, "source_text"),
                       targetText |-> Get(tmRaw, "target_text"),
                       tmSource |-> Get(tmRaw, "tm_source"),
                       tmSourceName |-> Get(tmRaw, "tm_source_name"),
                       tmId |-> Get(tmRaw, "tm_id"),
                       topMatches |->
                           Map(top, [i \in 1..Len(top.a) |-> tmMatchDetail(top.a[i])])])
            ELSE JsUndefined
    IN  Returned(
            JObj([translatedText |-> Nullish(Get(data, "translated_text"), JStr("")),
                  metadata |-> metadata,
                  tmMatch |-> tmMatch,
                  rationale |-> Get(data, "rationale"),
                  backtranslation |-> Get(data, "backtranslation")]))

parseTMEntry(data) ==
    Returned(
        JObj([id |-> Nullish(Get(data, "id"), JStr("")),
              userId |-> Get(data, "user_id"),
              endUserId |-> Get(data, "end_user_id"),
              sourceLanguageCode |-> Nullish(Get(data, "source_language_code"), JStr("")),
              sourceText |-> Nullish(Get(data, "source_text"), JStr("")),
              targetLanguageCode |-> Nullish(Get(data, "target_language_code"), JStr("")),
              targetText |-> Nullish(Get(data, "target_text"), JStr("")),
              informationSource |-> Nullish(Get(data, "information_source"), JStr("")),
              sourceName |-> Get(data, "source_name"),
              enabled |-> Nullish(Get(data, "enabled"), JBool(TRUE)),
              priority |-> Nullish(Get(data, "priority"), JNum(50)),
              createdAt |-> Get(data, "created_at"),
              updatedAt |-> Get(data, "updated_at"),
              matchScore |-> Get(data, "match_score")]))

parseStyleGuide(data) ==
    LET id == Nullish(Get(data, "id"), JStr(""))
    IN  Returned(
            JObj([id |-> IF id.t = "throw" THEN Thrown ELSE JStr(String(id)),
                  title |-> Nullish(Get(data, "title"), JStr("")),
                  content |-> Nullish(Get(data, "content"), JStr("")),
                  isEnabled |-> Nullish(Get(data, "is_enabled"), JBool(TRUE)),
                  displayOrder |-> Get(data, "display_order"),
                  userId |-> Get(data, "user_id")]))

\* The element mapping of parseLanguages (types.ts 267-273).
language(lang) ==
    JObj([id |-> Get(lang, "id"),
          language |-> Get(lang, "language"),
          languageCode |-> Get(lang, "language_code"),
          formality |-> Get(lang, "formality"),
          customStyle |-> Get(lang, "custom_style")])

parseLanguages(data) ==
    LET languages == Nullish(Get(data, "languages"), JArr(<<>>))
    IN  Returned(Map(languages,
                     [i \in 1..Len(languages.a) |-> language(languages.a[i])]))

\* The element mapping of parseTMSearch (types.ts 277-285).
searchMatch(m) ==
    JObj([tmId |-> Nullish(Get(m, "tm_id"), JStr("")),
          score |-> Nullish(Get(m, "score"), JNum(0)),
          matchType |-> Nullish(Get(m, "match_type"), JStr("")),
          sourceText |-> Nullish(Get(m, "source_text"), JStr("")),
          targetText |-> Nullish(Get(m, "target_text"), JStr("")),
          informationSource |-> Nullish(Get(m, "information_source"), JStr("")),
          sourceName |-> Get(m, "source_name")])

parseTMSearch(data) ==
    LET matches == Nullish(Get(data, "matches"), JArr(<<>>))
    IN  Returned(Map(matches,
                     [i \in 1..Len(matches.a) |-> searchMatch(matches.a[i])]))

parseTMList(data, offset, limit) ==
    LET raw == Nullish(Get(data, "entries"), JArr(<<>>))
        entries == Map(raw, [i \in 1..Len(raw.a) |-> parseTMEntry(raw.a[i])])
    IN  Returned(
            JObj([entries |-> entries,
                  total |-> Nullish(Get(data, "total"), Length(entries)),
                  offset |-> Nullish(Get(data, "offset"), JNum(offset)),
                  limit |-> Nullish(Get(data, "limit"), JNum(limit))]))

parseTMStats(data) ==
    Returned(
        JObj([total |-> Nullish(Get(data, "total"), JNum(0)),
              enabled |-> Nullish(Get(data, "enabled"), JNum(0)),
              disabled |-> Nullish(Get(data, "disabled"), JNum(0)),
              bySource |-> Nullish(Get(data, "by_source"), EmptyObject)]))

parseBrandVoice(data) ==
    Returned(
        JObj([prompt |-> Get(data, "prompt"),
              exists |-> Nullish(Get(data, "exists"), JBool(FALSE)),
              cached |-> Get(data, "cached")]))

\* The element mapping of parseImageResult (types.ts 320-322).
generatedImage(img) == JObj([imageBase64 |-> Get(img, "image_base64")])

parseImageResult(data) ==
    LET raw == Nullish(Get(data, "images"), JArr(<<>>))
        images == Map(raw, [i \in 1..Len(raw.a) |-> generatedImage(raw.a[i])])
        metaRaw == Nullish(Get(data, "metadata"), EmptyObject)
    IN  Returned(
            JObj([images |-> images,
                  metadata |->
                      JObj([cost |-> Nullish(Get(metaRaw, "cost"), JNum(0)),
                            numImages |-> Nullish(Get(metaRaw, "num_images"), JNum(0))])]))

\* The element mapping of parseInspection (types.ts 336-340).
affectedCountry(c) ==
    JObj([country |-> Get(c, "country"),
          issue |-> Get(c, "issue"),
          suggestion |-> Get(c, "suggestion")])

parseInspection(data) ==
    LET raw == Nullish(Get(data, "affected_countries"), JArr(<<>>))
        affectedCountries ==
            Map(raw, [i \in 1..Len(raw.a) |-> affectedCountry(raw.a[i])])
    IN  Returned(
            JObj([verdict |-> Nullish(Get(data, "verdict"), JStr("SAFE")),
                  affectedCountries |-> affectedCountries]))

\* The parsed body of a response (JsonParse above) as a JavaScript value.
Wire(body) ==
    CASE body.kind = "null" -> JsNull
      [] body.kind = "other" -> JArr(<<JNum(1)>>)
      [] OTHER ->
            JObj([k \in {k \in {"detail", "message", "translated_text", "success"} :
                           body[k] # Absent} |->
                    IF k = "success" THEN JBool(body[k] = "true")
                    ELSE JStr(body[k])])

(***************************************************************************)
(* Facade continuations.                                                   *)
(***************************************************************************)
NullAccess(prop) ==
    PlatformError("TypeError",
                  "Cannot read properties of null (reading '" \o prop \o "')")

\* return parseTranslation(data)   (client.ts 263); of the result the model
\* of the transport keeps the translated text.
translationOf(data) ==
    LET r == parseTranslation(Wire(data))
    IN  IF r.t = "throw" THEN Rejected(NullAccess("metadata"))
        ELSE Fulfilled([translatedText |-> r.o.translatedText.s])

\* (data.success as boolean) ?? false   (client.ts 495, 501)
successOf(data) ==
    IF data.kind = "null" THEN Rejected(NullAccess("success"))
    ELSE Fulfilled([success |-> data.success = "true"])

\* (data.extracted_text as string) ?? ""   (client.ts 307); no modelled body
\* has an extracted_text member.
extractedTextOf(data) ==
    IF data.kind = "null" THEN Rejected(NullAccess("extracted_text"))
    ELSE Fulfilled([extractedText |-> ""])

\* return parseTMSearch(data)   (client.ts 427)
matchesOf(data) ==
    LET r == parseTMSearch(Wire(data))
    IN  IF r.t = "throw" THEN Rejected(NullAccess("matches"))
        ELSE Fulfilled([matches |-> r.a])

\* What the facade operation does with the outcome of `await this.request`.
opContinuation(op, out) ==
    IF out.state = "rejected" THEN out
    ELSE IF op = "translate" THEN translationOf(out.value)
    ELSE IF op = "extractText" THEN extractedTextOf(out.value)
    ELSE IF op = "searchTm" THEN matchesOf(out.value)
    ELSE IF op = "culturalizeImage"
         THEN LET r == parseImageResult(Wire(out.value))
              IN  IF r.t = "throw" THEN Rejected(NullAccess("images"))
                  ELSE Fulfilled([images |-> r.o.images.a])
    ELSE IF op = "inspectImage"
         THEN LET r == parseInspection(Wire(out.value))
              IN  IF r.t = "throw" THEN Rejected(NullAccess("affected_countries"))
                  ELSE Fulfilled([verdict |-> r.o.verdict.s])
    ELSE successOf(out.value)

(***************************************************************************)
(* Requests as handed to fetch.  A JSON body is the set of its              *)
(* <<key, JSON text of the value>> members (JSON.stringify of a flat map).  *)
(***************************************************************************)
Quote(s) == "\"" \o s \o "\""

BoolText(b) == IF b THEN "true" ELSE "false"

\* Optional boolean / number options, like the optional strings above.
Val(v) == [set |-> TRUE, value |-> v]

\* a ?? b on optional values.
Coalesce(a, b) == IF a.set THEN a.value ELSE b

(***************************************************************************)
(* URLs.  A base URL text is an origin, a path ("" or "/seg/seg") and a    *)
(* number of trailing slashes: "https://h/a//" is origin "https://h",      *)
(* path "/a", 2 slashes.                                                   *)
(***************************************************************************)
DEFAULT_BASE_URL ==
    [origin |-> "https://api.usenativ.com", path |-> "", slashes |-> 0]

UndefinedUrl == [set |-> FALSE, value |-> DEFAULT_BASE_URL]

RECURSIVE Slashes(_)
Slashes(n) == IF n = 0 THEN "" ELSE "/" \o Slashes(n - 1)

\* The text of a base URL.
UrlText(u) == u.origin \o u.path \o Slashes(u.slashes)

\* s.replace(/\/+$/, "")
stripTrailingSlashes(u) == [u EXCEPT !.slashes = 0]

\* new URL(path, base) for a path that starts with "/": an absolute-path
\* reference replaces the whole path of the base (WHATWG URL, as in Node).
URL(path, base) ==
    [origin |-> base.origin, pathname |-> path, search |-> <<>>]

RECURSIVE SearchText(_)
SearchText(search) ==
    IF search = <<>> THEN ""
    ELSE search[1][1] \o "=" \o search[1][2]
         \o (IF Len(search) = 1 THEN "" ELSE "&" \o SearchText(Tail(search)))

\* url.href
Href(url) ==
    url.origin \o url.pathname
    \o (IF url.search = <<>> THEN "" ELSE "?" \o SearchText(url.search))

\* The version of the package (version.js, imported at client.ts 41).
VERSION == "<version>"

\* The multipart form of a request: its text fields and its file part.
\* bytes are the bytes of the Blob appended to the form.
NoFilePart == [filename |-> "", contentType |-> "", bytes |-> <<>>]

NoForm == [fields |-> {}, file |-> NoFilePart]

\* The options argument of Nativ.request: { json?, params?, formData? }.
NoRequestOptions ==
    [json |-> [set |-> FALSE, value |-> {}],
     params |-> [set |-> FALSE, value |-> <<>>],
     formData |-> [set |-> FALSE, value |-> NoForm]]

NoRequest ==
    [method |-> "", path |-> "", url |-> "", query |-> <<>>,
     bodyKind |-> "none", body |-> {},
     form |-> NoForm, contentType |-> Undefined, apiKey |-> "",
     userAgent |-> ""]

\* Variant: a JSON body is attached next to the form, with its header.
fetchArgs_Both(method, path, options, key, base) ==
    LET url == [URL(path, base) EXCEPT !.search =
                  [i \in 1..Len(options.params.value) |->
                     <<options.params.value[i][1], String(options.params.value[i][2])>>]]
    IN  [method |-> method, path |-> path, url |-> Href(url),
         query |-> url.search,
         bodyKind |-> IF options.formData.set /\ options.json.set THEN "both"
                      ELSE IF options.formData.set THEN "form"
                      ELSE IF options.json.set THEN "json" ELSE "none",
         body |-> IF options.json.set THEN options.json.value ELSE {},
         form |-> IF options.formData.set THEN options.formData.value ELSE NoForm,
         contentType |-> Str("application/json"),
         apiKey |-> key,
         userAgent |-> "nativ-node/" \o VERSION]

\* What Nativ.request hands to fetch (client.ts 182-200, 206-211): the URL,
\* the headers X-API-Key, User-Agent and Content-Type, and the body.
fetchArgs(method, path, options, key, base) ==
    LET url == [URL(path, base) EXCEPT !.search =
                  [i \in 1..Len(options.params.value) |->
                     <<options.params.value[i][1], String(options.params.value[i][2])>>]]
        kind == IF options.formData.set THEN "form"
                ELSE IF options.json.set THEN "json" ELSE "none"
    IN  [method |-> method, path |-> path, url |-> Href(url),
         query |-> url.search,
         bodyKind |-> kind,
         body |-> IF kind = "json" THEN options.json.value ELSE {},
         form |-> IF kind = "form" THEN options.formData.value ELSE NoForm,
         contentType |-> IF kind = "json" THEN Str("application/json")
                         ELSE Undefined,
         apiKey |-> key,
         userAgent |-> "nativ-node/" \o VERSION]

(***************************************************************************)
(* The file resolver (client.ts 86-140).  A filename is the sequence of    *)
(* its dot-separated segments: "shot.v2.webp" is <<"shot", "v2", "webp">>, *)
(* which is what filename.split(".") returns.                              *)
(***************************************************************************)
RECURSIVE FileText(_)
FileText(segments) ==
    IF Len(segments) = 1 THEN segments[1]
    ELSE segments[1] \o "." \o FileText(Tail(segments))

\* s.toLowerCase() on the segments the model uses.
toLowerCase(s) ==
    CASE s = "PNG" -> "png"
      [] s = "Logo" -> "logo"
      [] s = "README" -> "readme"
      [] OTHER -> s

\* The extension table of guessContentType (client.ts 128-138).
ContentTypeMap ==
    [ext \in {"png", "jpg", "jpeg", "gif", "webp", "svg", "bmp", "tiff", "pdf"} |->
        CASE ext = "png" -> "image/png"
          [] ext = "jpg" -> "image/jpeg"
          [] ext = "jpeg" -> "image/jpeg"
          [] ext = "gif" -> "image/gif"
          [] ext = "webp" -> "image/webp"
          [] ext = "svg" -> "image/svg+xml"
          [] ext = "bmp" -> "image/bmp"
          [] ext = "tiff" -> "image/tiff"
          [] ext = "pdf" -> "application/pdf"]

\* guessContentType(filename) (client.ts 126-140): split(".").pop() is the
\* last segment, and the whole name when the name has no dot.
guessContentType(filename) ==
    LET ext == toLowerCase(filename[Len(filename)])
    IN  IF ext \in DOMAIN ContentTypeMap THEN ContentTypeMap[ext]
        ELSE "application/octet-stream"

\* A Buffer or a Uint8Array: the view of `length` bytes at byteOffset onto
\* the ArrayBuffer `buffer`.  Bytes of data are positive; 0 is a byte of
\* the ArrayBuffer that belongs to something else.
View(buffer, byteOffset, length) ==
    [buffer |-> buffer, byteOffset |-> byteOffset, length |-> length]

NoData == View(<<>>, 0, 0)

\* The bytes seen through a view.
Contents(view) ==
    SubSeq(view.buffer, view.byteOffset + 1, view.byteOffset + view.length)

\* Buffer.from(uint8Array) (client.ts 101, 120): the bytes are copied into a
\* new Buffer, which Node allocates from its shared pool unless it is empty
\* (the sizes of the model are below half the pool size).  Of the pool, the
\* bytes before poolOffset and one byte after the copy are kept.
BufferFrom(view, poolOffset) ==
    IF view.length = 0 THEN NoData
    ELSE View([i \in 1..poolOffset |-> 0] \o Contents(view) \o <<0>>,
              poolOffset, view.length)

\* await readFile(path) (client.ts 90) on the modelled file system: the error
\* it rejects with ("" when it resolves) and the Buffer it resolves to, which
\* has an ArrayBuffer of its own.
readFile(path) ==
    CASE path = <<"missing", "png">> ->
            [error |-> "ENOENT: no such file or directory", data |-> NoData]
      [] path = <<"secret", "pdf">> ->
            [error |-> "EACCES: permission denied", data |-> NoData]
      [] OTHER ->
            [error |-> "", data |-> View([i \in 1..Len(path) |-> i], 0, Len(path))]

\* A FileInput (types.ts 181-186): kind is "path", "buffer", "uint8array",
\* "blob" or "struct"; name is the basename of a path or the filename of a
\* struct; type is the type of a blob or the contentType of a struct; data
\* is the Buffer, the Uint8Array, the bytes of the Blob or the data of the
\* struct, and dataKind tells a struct's Buffer from a struct's Uint8Array.
FileInput(kind, name, type, dataKind, data) ==
    [kind |-> kind, name |-> name, type |-> type, dataKind |-> dataKind,
     data |-> data]

NoFileInput == FileInput("none", <<"">>, Undefined, "none", NoData)

NoFile == [error |-> "", data |-> NoData, filename |-> <<"">>, contentType |-> ""]

\* Variant: a path that cannot be read resolves to an empty file.
resolveFile_Lenient(input, poolOffset) ==
    CASE input.kind = "path" ->
            [error |-> "", data |-> readFile(input.name).data,
             filename |-> input.name,
             contentType |-> guessContentType(input.name)]
      [] input.kind = "buffer" ->
            [error |-> "", data |-> input.data,
             filename |-> <<"image", "png">>, contentType |-> "image/png"]
      [] input.kind = "uint8array" ->
            [error |-> "", data |-> BufferFrom(input.data, poolOffset),
             filename |-> <<"image", "png">>, contentType |-> "image/png"]
      [] input.kind = "blob" ->
            [error |-> "", data |-> View(Contents(input.data), 0, input.data.length),
             filename |-> <<"image", "png">>,
             contentType |-> OrElse(input.type, Str("image/png")).value]
      [] input.kind = "struct" ->
            [error |-> "",
             data |-> IF input.dataKind = "buffer" THEN input.data
                      ELSE BufferFrom(input.data, poolOffset),
             filename |-> input.name,
             contentType |-> Coalesce(input.type, guessContentType(input.name))]

\* resolveFile(input) (client.ts 86-124).  A rejected readFile rejects
\* resolveFile with the same error; Buffer.from(arrayBuffer) is a view of
\* the whole ArrayBuffer of the Blob.
resolveFile(input, poolOffset) ==
    CASE input.kind = "path" ->
            IF readFile(input.name).error # ""
            THEN [NoFile EXCEPT !.error = readFile(input.name).error]
            ELSE [error |-> "", data |-> readFile(input.name).data,
                  filename |-> input.name,
                  contentType |-> guessContentType(input.name)]
      [] input.kind = "buffer" ->
            [error |-> "", data |-> input.data,
             filename |-> <<"image", "png">>, contentType |-> "image/png"]
      [] input.kind = "uint8array" ->
            [error |-> "", data |-> BufferFrom(input.data, poolOffset),
             filename |-> <<"image", "png">>, contentType |-> "image/png"]
      [] input.kind = "blob" ->
            [error |-> "", data |-> View(Contents(input.data), 0, input.data.length),
             filename |-> <<"image", "png">>,
             contentType |-> OrElse(input.type, Str("image/png")).value]
      [] input.kind = "struct" ->
            [error |-> "",
             data |-> IF input.dataKind = "buffer" THEN input.data
                      ELSE BufferFrom(input.data, poolOffset),
             filename |-> input.name,
             contentType |-> Coalesce(input.type, guessContentType(input.name))]

NoOptions ==
    [targetLanguageCode |-> Undefined, sourceLanguage |-> Undefined,
     sourceLanguageCode |-> Undefined, context |-> Undefined,
     glossary |-> Undefined, formality |-> Undefined,
     maxCharacters |-> [set |-> FALSE, value |-> 0],
     includeTmInfo |-> [set |-> FALSE, value |-> FALSE],
     backtranslate |-> [set |-> FALSE, value |-> FALSE],
     includeRationale |-> [set |-> FALSE, value |-> FALSE]]

\* The options translateBatch passes on (client.ts 278-283).
BatchOptions(options) ==
    [options EXCEPT !.includeTmInfo = Val(TRUE),
                    !.backtranslate = Val(FALSE),
                    !.includeRationale = Val(FALSE)]

\* Variant: max_characters is tested for truthiness like the other fields.
optionalFields_MaxTruthy(options) ==
    (IF Truthy(options.targetLanguageCode)
     THEN {<<"language_code", Quote(options.targetLanguageCode.value)>>} ELSE {})
    \cup (IF Truthy(options.context)
          THEN {<<"context", Quote(options.context.value)>>} ELSE {})
    \cup (IF Truthy(options.glossary)
          THEN {<<"glossary", Quote(options.glossary.value)>>} ELSE {})
    \cup (IF Truthy(options.formality)
          THEN {<<"formality", Quote(options.formality.value)>>} ELSE {})
    \cup (IF options.maxCharacters.set /\ options.maxCharacters.value # 0
          THEN {<<"max_characters", ToString(options.maxCharacters.value)>>} ELSE {})

\* The fields translate adds to the body on condition (client.ts 252-258).
optionalFields(options) ==
    (IF Truthy(options.targetLanguageCode)
     THEN {<<"language_code", Quote(options.targetLanguageCode.value)>>} ELSE {})
    \cup (IF Truthy(options.context)
          THEN {<<"context", Quote(options.context.value)>>} ELSE {})
    \cup (IF Truthy(options.glossary)
          THEN {<<"glossary", Quote(options.glossary.value)>>} ELSE {})
    \cup (IF Truthy(options.formality)
          THEN {<<"formality", Quote(options.formality.value)>>} ELSE {})
    \cup (IF options.maxCharacters.set
          THEN {<<"max_characters", ToString(options.maxCharacters.value)>>} ELSE {})

\* The body built by translate (client.ts 242-258).
translateBody(text, targetLanguage, options) ==
    { <<"text", Quote(text)>>,
      <<"language", Quote(targetLanguage)>>,
      <<"source_language", Quote(Coalesce(options.sourceLanguage, "English"))>>,
      <<"source_language_code", Quote(Coalesce(options.sourceLanguageCode, "en"))>>,
      <<"tool", Quote("api")>>,
      <<"include_tm_info", BoolText(Coalesce(options.includeTmInfo, TRUE))>>,
      <<"backtranslate", BoolText(Coalesce(options.backtranslate, FALSE))>>,
      <<"include_rationale", BoolText(Coalesce(options.includeRationale, TRUE))>> }
    \cup optionalFields(options)

\* Variant: the fields are tested for truthiness, not against undefined.
updateBody_Truthy(update) ==
    (IF Truthy(update.targetText)
     THEN {<<"target_text", Quote(update.targetText.value)>>} ELSE {})
    \cup (IF update.enabled.set /\ update.enabled.value
          THEN {<<"enabled", BoolText(update.enabled.value)>>} ELSE {})

\* The body built by updateTmEntry (client.ts 484-486).
updateBody(update) ==
    (IF update.targetText.set
     THEN {<<"target_text", Quote(update.targetText.value)>>} ELSE {})
    \cup (IF update.enabled.set
          THEN {<<"enabled", BoolText(update.enabled.value)>>} ELSE {})

\* An update argument of updateTmEntry: { targetText?, enabled? }.
NoUpdate ==
    [targetText |-> Undefined, enabled |-> [set |-> FALSE, value |-> FALSE]]

Updates ==
    [targetText : {Undefined, Str(""), Str("Bonjour")},
     enabled : {[set |-> FALSE, value |-> FALSE], Val(FALSE), Val(TRUE)}]

(***************************************************************************)
(* State.                                                                  *)
(***************************************************************************)
VARIABLES
    env,        \* process.env.NATIV_API_KEY
    envUrl,     \* process.env.NATIV_API_URL
    client,     \* the Nativ instance: state, the apiKey option it was given,
                \* the resolved apiKey, the error thrown by the constructor
    calls,      \* per slot: the latest invocation of a facade operation;
                \* fetches counts the calls of fetch that invocation made
    batch,      \* the Promise.all of a translateBatch call
    adapter     \* the latest application of a response shape adapter

vars == <<env, envUrl, client, calls, batch, adapter>>

Slots == 1..MaxTexts

IdleCall ==
    [op |-> "none", pc |-> "idle", timer |-> "none", aborted |-> FALSE,
     fetches |-> 0, req |-> NoRequest, text |-> "", update |-> NoUpdate,
     options |-> NoOptions, language |-> "", image |-> NoFileInput,
     file |-> NoFile,
     status |-> 0, raw |-> "", bodyRead |-> "no", respBody |-> NoValue,
     result |-> Pending, opResult |-> Pending]

\* The outcome of a promise for a sequence of results.
NoResults == <<>>

PendingAll == [state |-> "pending", value |-> NoResults, error |-> NoError]

\* order lists the translate calls of the batch in the order they settled.
NoBatch ==
    [active |-> FALSE, texts |-> <<>>, values |-> <<>>, remaining |-> 0,
     result |-> PendingAll, order |-> <<>>]

EnvKeys == {Undefined, Str(""), Str("nativ_env_key")}

OptKeys == {Undefined, Str(""), Str("nativ_opt_key")}

\* No adapter has been applied.
NoAdapter ==
    [name |-> "none", input |-> "none", data |-> JsUndefined, out |-> JsUndefined]

\* The client before construction.  envKey and envUrl record what the
\* environment variables held when the constructor ran.
NoClient ==
    [state |-> "none", optKey |-> Undefined, optUrl |-> UndefinedUrl,
     envKey |-> Undefined, envUrl |-> UndefinedUrl, apiKey |-> "",
     baseUrl |-> DEFAULT_BASE_URL, error |-> NoError]

Init ==
    /\ env \in EnvKeys
    /\ envUrl = UndefinedUrl
    /\ client = NoClient
    /\ calls = [c \in Slots |-> IdleCall]
    /\ batch = NoBatch
    /\ adapter = NoAdapter

(***************************************************************************)
(* new Nativ(options) (client.ts 159-167).                                 *)
(***************************************************************************)
\* new Nativ({ apiKey, baseUrl }).
ConstructWith(apiKey, baseUrl) ==
    /\ client.state = "none"
    /\ LET r == resolveApiKey(apiKey, env)
           made == [NoClient EXCEPT !.optKey = apiKey, !.optUrl = baseUrl,
                                    !.envKey = env, !.envUrl = envUrl]
       IN  client' = IF r.state = "fulfilled"
                     THEN [made EXCEPT
                             !.state = "ready",
                             !.apiKey = r.value,
                             !.baseUrl = stripTrailingSlashes(
                                 Coalesce(baseUrl,
                                          Coalesce(envUrl, DEFAULT_BASE_URL)))]
                     ELSE [made EXCEPT !.state = "failed", !.error = r.error]
    /\ UNCHANGED <<env, envUrl, calls, batch, adapter>>

\* new Nativ({ apiKey }).
Construct(apiKey) == ConstructWith(apiKey, UndefinedUrl)

\* Variant: the client follows the environment after construction.
SetEnv_Live(key, url) ==
    /\ env' = key
    /\ envUrl' = url
    /\ client' = IF client.state = "ready"
                 THEN [client EXCEPT
                         !.apiKey = OrElse(client.optKey, OrElse(key, Str(@))).value,
                         !.baseUrl = stripTrailingSlashes(
                             Coalesce(client.optUrl,
                                      Coalesce(url, DEFAULT_BASE_URL)))]
                 ELSE client
    /\ UNCHANGED <<calls, batch, adapter>>

\* The host program assigns process.env.NATIV_API_KEY and
\* process.env.NATIV_API_URL; the client reads them in its constructor only
\* (client.ts 54, 162).
SetEnv(key, url) ==
    /\ env' = key
    /\ envUrl' = url
    /\ UNCHANGED <<client, calls, batch, adapter>>

(***************************************************************************)
(* Nativ.request up to `await fetch(...)` (client.ts 182-211): the URL,    *)
(* headers and body are built, the timer is armed and fetch is called      *)
(* once.                                                                   *)
(***************************************************************************)
startRequest(op, req, text, update) ==
    [op |-> op, pc |-> "fetching", timer |-> "armed", aborted |-> FALSE,
     fetches |-> 1, req |-> req, text |-> text, update |-> update,
     options |-> NoOptions, language |-> "", image |-> NoFileInput,
     file |-> NoFile,
     status |-> 0, raw |-> "", bodyRead |-> "no", respBody |-> NoValue,
     result |-> Pending, opResult |-> Pending]

\* A facade call that throws before it reaches this.request.
failedLocally(op, err, update) ==
    [IdleCall EXCEPT !.op = op, !.pc = "settled", !.update = update,
                     !.result = Pending, !.opResult = Rejected(err)]

\* The call translate(text, targetLanguage, options) starts (client.ts 237-262).
translateCall(text, targetLanguage, options) ==
    [startRequest("translate",
                 fetchArgs("POST", "/text/culturalize",
                           [NoRequestOptions EXCEPT !.json =
                              Val(translateBody(text, targetLanguage, options))],
                           client.apiKey, client.baseUrl),
                 text, NoUpdate)
       EXCEPT !.options = options, !.language = targetLanguage]

\* The file part of the forms of extractText, culturalizeImage and
\* inspectImage (client.ts 295-300): new Blob([file.data.buffer], { type }),
\* that is the whole ArrayBuffer under the resolved Buffer.
filePart(file) ==
    [filename |-> FileText(file.filename), contentType |-> file.contentType,
     bytes |-> file.data.buffer]

\* A call of `op` with an image (client.ts 293-305, 312-342, 345-363): the
\* file is resolved first, a rejected resolveFile rejects the operation;
\* otherwise the form of the file part and the text fields is posted.
fileCall(op, path, image, fields, poolOffset) ==
    LET file == resolveFile(image, poolOffset)
    IN  IF file.error # ""
        THEN [failedLocally(op, PlatformError("Error", file.error), NoUpdate)
                EXCEPT !.image = image]
        ELSE [startRequest(op,
                           fetchArgs("POST", path,
                                     [NoRequestOptions EXCEPT !.formData =
                                        Val([fields |-> fields,
                                             file |-> filePart(file)])],
                                     client.apiKey, client.baseUrl),
                           "", NoUpdate)
                EXCEPT !.image = image, !.file = file]

extractCall(image, poolOffset) ==
    fileCall("extractText", "/text/extract", image, {}, poolOffset)

\* culturalizeImage(image, text, languageCode, options) (client.ts 312-342).
culturalizeCall(image, text, languageCode, options, poolOffset) ==
    fileCall("culturalizeImage", "/image/culturalize", image,
             { <<"text", text>>,
               <<"language_code", languageCode>>,
               <<"output_format", Coalesce(options.outputFormat, "png")>>,
               <<"model", Coalesce(options.model, "gpt")>>,
               <<"num_images", String(JNum(Coalesce(options.numImages, 1)))>>,
               <<"tool", "api">> },
             poolOffset)

\* inspectImage(image, { countries }) (client.ts 345-363): the countries are
\* joined with "," and sent when there is at least one.
inspectCall(image, countries, poolOffset) ==
    LET join[i \in 0..Len(countries)] ==
            IF i = 0 THEN ""
            ELSE IF i = 1 THEN countries[1]
            ELSE join[i - 1] \o "," \o countries[i]
    IN  fileCall("inspectImage", "/image/inspect", image,
                 IF Len(countries) > 0
                 THEN {<<"countries", join[Len(countries)]>>} ELSE {},
                 poolOffset)

\* The options argument of searchTm.
NoSearchOptions ==
    [sourceLanguageCode |-> Undefined, targetLanguageCode |-> Undefined,
     minScore |-> [set |-> FALSE, value |-> 0],
     limit |-> [set |-> FALSE, value |-> 0]]

\* The params built by searchTm (client.ts 415-423).
searchParams(query, options) ==
    << <<"query", JStr(query)>>,
       <<"source_lang", JStr(Coalesce(options.sourceLanguageCode, "en"))>>,
       <<"score_cutoff", JNum(Coalesce(options.minScore, 0))>>,
       <<"limit", JNum(Coalesce(options.limit, 10))>> >>
    \o (IF Truthy(options.targetLanguageCode)
        THEN << <<"target_lang", JStr(options.targetLanguageCode.value)>> >>
        ELSE <<>>)

\* The call searchTm(query, options) starts (client.ts 406-426).
searchCall(query, options) ==
    startRequest("searchTm",
                 fetchArgs("GET", "/master-tm/fuzzy-search",
                           [NoRequestOptions EXCEPT !.params =
                              Val(searchParams(query, options))],
                           client.apiKey, client.baseUrl),
                 query, NoUpdate)

\* The call updateTmEntry(entryId, update) starts (client.ts 480-494).
updateCall(entryId, update) ==
    IF updateBody(update) = {}
    THEN failedLocally("updateTmEntry",
                       NativError("ValidationError",
                                  "Provide at least one of targetText or enabled",
                                  FALSE, 0, NoValue),
                       update)
    ELSE startRequest("updateTmEntry",
                      fetchArgs("PATCH", "/master-tm/entries/" \o entryId,
                                [NoRequestOptions EXCEPT !.json =
                                   Val(updateBody(update))],
                                client.apiKey, client.baseUrl),
                      "", update)

\* The call deleteTmEntry(entryId) starts (client.ts 499-500).
deleteCall(entryId) ==
    startRequest("deleteTmEntry",
                 fetchArgs("DELETE", "/master-tm/entries/" \o entryId,
                           NoRequestOptions, client.apiKey, client.baseUrl),
                 "", NoUpdate)

(***************************************************************************)
(* Promise.all (client.ts 276): element i of the result is the value of    *)
(* promise i; the first rejection rejects the whole.                       *)
(***************************************************************************)
promiseAllStart(n) ==
    [active |-> TRUE, texts |-> <<>>, values |-> [i \in 1..n |-> NoValue],
     remaining |-> n,
     result |-> IF n = 0
                THEN [state |-> "fulfilled", value |-> NoResults, error |-> NoError]
                ELSE PendingAll,
     order |-> <<>>]

\* Variant: results are collected in completion order.
promiseAllReact_CompletionOrder(b, i, out) ==
    IF out.state = "fulfilled"
    THEN LET vals == [b.values EXCEPT ![Len(b.values) - b.remaining + 1] = out.value]
         IN  [b EXCEPT !.values = vals,
                       !.remaining = @ - 1,
                       !.result = IF b.result.state = "pending" /\ b.remaining = 1
                                  THEN [state |-> "fulfilled", value |-> vals,
                                        error |-> NoError]
                                  ELSE @]
    ELSE [b EXCEPT !.result = IF @.state = "pending"
                              THEN [state |-> "rejected", value |-> NoResults,
                                    error |-> out.error]
                              ELSE @]

\* Variant: a rejected element is kept as an empty slot (partial results).
promiseAllReact_Partial(b, i, out) ==
    [b EXCEPT !.values = IF out.state = "fulfilled"
                         THEN [@ EXCEPT ![i] = out.value] ELSE @,
              !.remaining = @ - 1,
              !.result = IF b.remaining = 1
                         THEN [state |-> "fulfilled",
                               value |-> IF out.state = "fulfilled"
                                         THEN [b.values EXCEPT ![i] = out.value]
                                         ELSE b.values,
                               error |-> NoError]
                         ELSE @]

promiseAllReact(b, i, out) ==
    IF out.state = "fulfilled"
    THEN LET vals == [b.values EXCEPT ![i] = out.value]
         IN  [b EXCEPT !.values = vals,
                       !.remaining = @ - 1,
                       !.result = IF b.result.state = "pending" /\ b.remaining = 1
                                  THEN [state |-> "fulfilled", value |-> vals,
                                        error |-> NoError]
                                  ELSE @]
    ELSE [b EXCEPT !.result = IF @.state = "pending"
                              THEN [state |-> "rejected", value |-> NoResults,
                                    error |-> out.error]
                              ELSE @]

(***************************************************************************)
(* Facade operations.  One operation runs at a time on a client, except    *)
(* that translateBatch runs its translate calls concurrently.              *)
(***************************************************************************)
CanInvoke ==
    /\ client.state = "ready"
    /\ \A c \in Slots : calls[c].pc \in {"idle", "settled"}

Texts == {"Hello", "Goodbye"}

Languages == {"French"}

EntryIds == {"e1"}

Translate(text, targetLanguage) ==
    /\ CanInvoke
    /\ calls' = [c \in Slots |->
                   IF c = 1 THEN translateCall(text, targetLanguage, NoOptions)
                   ELSE IdleCall]
    /\ batch' = NoBatch
    /\ UNCHANGED <<envUrl, adapter, env, client>>

UpdateTmEntry(entryId, update) ==
    /\ CanInvoke
    /\ calls' = [c \in Slots |->
                   IF c = 1 THEN updateCall(entryId, update) ELSE IdleCall]
    /\ batch' = NoBatch
    /\ UNCHANGED <<envUrl, adapter, env, client>>

DeleteTmEntry(entryId) ==
    /\ CanInvoke
    /\ calls' = [c \in Slots |->
                   IF c = 1 THEN deleteCall(entryId) ELSE IdleCall]
    /\ batch' = NoBatch
    /\ UNCHANGED <<envUrl, adapter, env, client>>

TranslateWith(text, targetLanguage, options) ==
    /\ CanInvoke
    /\ calls' = [c \in Slots |->
                   IF c = 1 THEN translateCall(text, targetLanguage, options)
                   ELSE IdleCall]
    /\ batch' = NoBatch
    /\ UNCHANGED <<envUrl, adapter, env, client>>

SearchTm(query, options) ==
    /\ CanInvoke
    /\ calls' = [c \in Slots |->
                   IF c = 1 THEN searchCall(query, options) ELSE IdleCall]
    /\ batch' = NoBatch
    /\ UNCHANGED <<envUrl, adapter, env, client>>

\* The offset of the pool is what earlier allocations of the process left
\* behind; only Buffer.from(uint8Array) allocates from the pool.
PoolOffsets(image) ==
    IF image.dataKind = "uint8array" THEN 0..MaxBytes ELSE {0}

ExtractText(image) ==
    /\ CanInvoke
    /\ \E poolOffset \in PoolOffsets(image) :
          calls' = [c \in Slots |->
                      IF c = 1 THEN extractCall(image, poolOffset) ELSE IdleCall]
    /\ batch' = NoBatch
    /\ UNCHANGED <<envUrl, adapter, env, client>>

CulturalizeImage(image, text, languageCode, options) ==
    /\ CanInvoke
    /\ \E poolOffset \in PoolOffsets(image) :
          calls' = [c \in Slots |->
                      IF c = 1
                      THEN culturalizeCall(image, text, languageCode, options,
                                           poolOffset)
                      ELSE IdleCall]
    /\ batch' = NoBatch
    /\ UNCHANGED <<envUrl, adapter, env, client>>

InspectImage(image, countries) ==
    /\ CanInvoke
    /\ \E poolOffset \in PoolOffsets(image) :
          calls' = [c \in Slots |->
                      IF c = 1 THEN inspectCall(image, countries, poolOffset)
                      ELSE IdleCall]
    /\ batch' = NoBatch
    /\ UNCHANGED <<envUrl, adapter, env, client>>

\* translateBatch(texts, targetLanguage) (client.ts 271-286): texts.map runs
\* every translate call up to its `await fetch` before Promise.all is built.
TranslateBatch(texts, targetLanguage) ==
    /\ CanInvoke
    /\ calls' = [c \in Slots |->
                   IF c <= Len(texts)
                   THEN translateCall(texts[c], targetLanguage,
                                      BatchOptions(NoOptions))
                   ELSE IdleCall]
    /\ batch' = [promiseAllStart(Len(texts)) EXCEPT !.texts = texts]
    /\ UNCHANGED <<envUrl, adapter, env, client>>

(***************************************************************************)
(* The rest of Nativ.request (client.ts 205-224) and the continuation of   *)
(* the facade operation that awaits it.                                    *)
(***************************************************************************)
\* Variant: clearTimeout(timer) at the end of the try block instead of in
\* finally, so that only a returning request clears its timer.
Settle_ClearOnReturn(c, bodyRead, respBody, out) ==
    LET opOut == opContinuation(calls[c].op, out)
    IN  /\ calls' = [calls EXCEPT ![c] =
                       [@ EXCEPT !.pc = "settled",
                                 !.timer = IF @ = "armed" /\ out.state = "fulfilled"
                                           THEN "cleared" ELSE @,
                                 !.bodyRead = bodyRead,
                                 !.respBody = respBody,
                                 !.result = out,
                                 !.opResult = opOut]]
        /\ batch' = IF batch.active
                    THEN [promiseAllReact(batch, c, opOut)
                            EXCEPT !.order = Append(@, c)]
                    ELSE batch
        /\ UNCHANGED <<envUrl, adapter, env, client>>

\* request settles with `out`; finally { clearTimeout(timer) }; the facade
\* operation resumes, and a translateBatch's Promise.all reacts.
Settle(c, bodyRead, respBody, out) ==
    LET opOut == opContinuation(calls[c].op, out)
    IN  /\ calls' = [calls EXCEPT ![c] =
                       [@ EXCEPT !.pc = "settled",
                                 !.timer = IF @ = "armed" THEN "cleared" ELSE @,
                                 !.bodyRead = bodyRead,
                                 !.respBody = respBody,
                                 !.result = out,
                                 !.opResult = opOut]]
        /\ batch' = IF batch.active
                    THEN [promiseAllReact(batch, c, opOut)
                            EXCEPT !.order = Append(@, c)]
                    ELSE batch
        /\ UNCHANGED <<envUrl, adapter, env, client>>

\* fetch resolves: the response's status line and headers have arrived.
FetchResolve(c, status, raw) ==
    /\ calls[c].pc = "fetching"
    /\ ~calls[c].aborted
    /\ calls' = [calls EXCEPT ![c] =
                   [@ EXCEPT !.pc = "reading", !.status = status, !.raw = raw]]
    /\ UNCHANGED <<envUrl, adapter, env, client, batch>>

\* Variant: a failed fetch is sent once more.
FetchFail_Retry(c) ==
    /\ calls[c].pc = "fetching"
    /\ ~calls[c].aborted
    /\ IF calls[c].fetches < 2
       THEN /\ calls' = [calls EXCEPT ![c] = [@ EXCEPT !.fetches = @ + 1]]
            /\ UNCHANGED <<envUrl, adapter, env, client, batch>>
       ELSE Settle(c, "no", NoValue,
                   Rejected(PlatformError("TypeError", "fetch failed")))

\* fetch rejects: the transport failed (DNS, connection refused, reset).
FetchFail(c) ==
    /\ calls[c].pc = "fetching"
    /\ ~calls[c].aborted
    /\ Settle(c, "no", NoValue, Rejected(PlatformError("TypeError", "fetch failed")))

\* Variant: the calls of a client share one abort controller.
TimerFire_Shared(c) ==
    /\ calls[c].timer = "armed"
    /\ calls' = [d \in Slots |->
                   IF d = c
                   THEN [calls[d] EXCEPT !.timer = "fired", !.aborted = TRUE]
                   ELSE IF calls[d].pc \in {"fetching", "reading"}
                        THEN [calls[d] EXCEPT !.aborted = TRUE]
                        ELSE calls[d]]
    /\ UNCHANGED <<envUrl, adapter, env, client, batch>>

\* The timeout elapses: setTimeout's callback runs controller.abort().
TimerFire(c) ==
    /\ calls[c].timer = "armed"
    /\ calls' = [calls EXCEPT ![c] =
                   [@ EXCEPT !.timer = "fired", !.aborted = TRUE]]
    /\ UNCHANGED <<envUrl, adapter, env, client, batch>>

\* The aborted signal rejects the pending fetch.
AbortFetch(c) ==
    /\ calls[c].pc = "fetching"
    /\ calls[c].aborted
    /\ Settle(c, "no", NoValue,
              Rejected(PlatformError("AbortError", "This operation was aborted")))

\* The body arrives in full: resp.json(), the fallback, raiseForStatus.
ReadBody(c) ==
    /\ calls[c].pc = "reading"
    /\ ~calls[c].aborted
    /\ LET respBody == readRespBody(calls[c].raw, TRUE)
       IN  Settle(c, "complete", respBody, raiseForStatus(calls[c].status, respBody))

\* The body stream errors while resp.json() reads it, because the signal
\* was aborted (AbortRead) or the connection was lost (BodyFail).
AbortRead(c) ==
    /\ calls[c].pc = "reading"
    /\ calls[c].aborted
    /\ LET respBody == readRespBody(calls[c].raw, FALSE)
       IN  Settle(c, "errored", respBody, raiseForStatus(calls[c].status, respBody))

BodyFail(c) ==
    /\ calls[c].pc = "reading"
    /\ ~calls[c].aborted
    /\ calls[c].raw # EmptyText
    /\ LET respBody == readRespBody(calls[c].raw, FALSE)
       IN  Settle(c, "errored", respBody, raiseForStatus(calls[c].status, respBody))

(***************************************************************************)
(* Specifications.                                                         *)
(***************************************************************************)
Statuses == {200, 204, 302, 400, 401, 402, 404, 418, 422, 429, 500, 503}

\* One client, single operations one after the other.
Next ==
    \/ \E apiKey \in OptKeys : Construct(apiKey)
    \/ \E text \in Texts, lang \in Languages : Translate(text, lang)
    \/ \E id \in EntryIds, update \in Updates : UpdateTmEntry(id, update)
    \/ \E id \in EntryIds : DeleteTmEntry(id)
    \/ \E status \in Statuses, raw \in RawTexts : FetchResolve(1, status, raw)
    \/ FetchFail(1)
    \/ TimerFire(1)
    \/ AbortFetch(1)
    \/ ReadBody(1)
    \/ AbortRead(1)
    \/ BodyFail(1)

Spec == Init /\ [][Next]_vars

\* One client, translateBatch calls one after the other; the translate
\* calls of a batch run concurrently.
BatchStatuses == {200, 500}

BatchRaws ==
    { "{\"translated_text\":\"Bonjour\"}",
      "{\"translated_text\":\"Salut\"}" }

\* The batches handed to translateBatch: up to MaxTexts texts, neighbours
\* differing so that a result out of place is visible.
BatchTexts ==
    { [i \in 1..n |-> IF i % 2 = 1 THEN "Hello" ELSE "Goodbye"] : n \in 0..MaxTexts }

InitBatch == Init /\ env = Undefined

NextBatch ==
    \/ \E apiKey \in OptKeys : Construct(apiKey)
    \/ \E texts \in BatchTexts, lang \in Languages :
          TranslateBatch(texts, lang)
    \/ \E c \in Slots, status \in BatchStatuses, raw \in BatchRaws :
          FetchResolve(c, status, raw)
    \/ \E c \in Slots : FetchFail(c)
    \/ \E c \in Slots : TimerFire(c)
    \/ \E c \in Slots : AbortFetch(c)
    \/ \E c \in Slots : ReadBody(c)
    \/ \E c \in Slots : AbortRead(c)
    \/ \E c \in Slots : BodyFail(c)

SpecBatch == InitBatch /\ [][NextBatch]_vars

\* One client under a changing environment, with its own or the
\* environment's base URL; operations with a JSON body, with query
\* parameters and without a body, one after the other.
EnvUrls ==
    { UndefinedUrl,
      Val([origin |-> "https://staging.usenativ.com", path |-> "", slashes |-> 1]) }

OptUrls ==
    { UndefinedUrl,
      Val([origin |-> "https://eu.usenativ.com", path |-> "", slashes |-> 2]),
      Val([origin |-> "https://proxy.example.com", path |-> "/nativ/v1",
           slashes |-> 0]) }

SearchOptions ==
    { NoSearchOptions,
      [NoSearchOptions EXCEPT !.targetLanguageCode = Str("fr"),
                              !.minScore = Val(80), !.limit = Val(5)] }

RequestOptionSets ==
    { NoOptions, [NoOptions EXCEPT !.context = Str("marketing")] }

FileNames ==
    { <<"banner", "jpg">>, <<"Logo", "PNG">>, <<"data", "xyz">>,
      <<"shot", "v2", "webp">>, <<"png">>, <<"README">> }

\* File inputs of every variant, for the names above; the data is one
\* byte in an ArrayBuffer of its own.
FileInputs ==
    { FileInput("path", name, Undefined, "none", NoData) : name \in FileNames }
    \cup { FileInput("struct", name, type, "buffer", View(<<1>>, 0, 1)) :
             name \in FileNames, type \in {Undefined, Str(""), Str("image/gif")} }
    \cup { FileInput("buffer", <<"">>, Undefined, "buffer", View(<<1>>, 0, 1)),
           FileInput("uint8array", <<"">>, Undefined, "uint8array", View(<<1>>, 0, 1)),
           FileInput("blob", <<"">>, Str(""), "blob", View(<<1>>, 0, 1)),
           FileInput("blob", <<"">>, Str("image/webp"), "blob", View(<<1>>, 0, 1)) }

NextRequests ==
    \/ \E apiKey \in OptKeys, baseUrl \in OptUrls : ConstructWith(apiKey, baseUrl)
    \/ \E key \in EnvKeys, url \in EnvUrls : SetEnv(key, url)
    \/ \E text \in Texts, lang \in Languages, options \in RequestOptionSets :
          TranslateWith(text, lang, options)
    \/ \E query \in {"hello"}, options \in SearchOptions : SearchTm(query, options)
    \/ \E id \in EntryIds : DeleteTmEntry(id)
    \/ \E image \in FileInputs : ExtractText(image)
    \/ FetchResolve(1, 200, "{}")
    \/ FetchFail(1)
    \/ ReadBody(1)

SpecRequests == Init /\ [][NextRequests]_vars

\* The operations that take an image, on paths that can and cannot be read
\* and on views of every offset and length onto ArrayBuffers of up to
\* MaxBytes bytes.
ImageInputs ==
    LET views == { v \in { View([i \in 1..size |-> i], byteOffset, length) :
                             size \in 0..MaxBytes, byteOffset \in 0..MaxBytes,
                             length \in 0..MaxBytes } :
                     v.byteOffset + v.length <= Len(v.buffer) }
    IN  { FileInput("path", name, Undefined, "none", NoData) :
            name \in {<<"banner", "jpg">>, <<"png">>, <<"missing", "png">>,
                      <<"secret", "pdf">>} }
        \cup { FileInput(kind[1], <<"scan", "pdf">>, Undefined, kind[2], view) :
                 kind \in { <<"buffer", "buffer">>, <<"uint8array", "uint8array">>,
                            <<"struct", "buffer">>, <<"struct", "uint8array">> },
                 view \in views }
        \cup { FileInput("blob", <<"">>, Str("image/webp"), "blob", view) :
                 view \in {v \in views : v.length = Len(v.buffer)} }

NextFiles ==
    \/ \E apiKey \in OptKeys : Construct(apiKey)
    \/ \E image \in ImageInputs : ExtractText(image)
    \/ \E image \in ImageInputs, text \in {"Hello"},
          options \in {[outputFormat |-> Undefined, model |-> Undefined,
                        numImages |-> [set |-> FALSE, value |-> 0]],
                       [outputFormat |-> Str("webp"), model |-> Str("flux"),
                        numImages |-> Val(2)]} :
          CulturalizeImage(image, text, "fr", options)
    \/ \E image \in ImageInputs, countries \in {<<>>, <<"FR", "DE">>} :
          InspectImage(image, countries)
    \/ FetchResolve(1, 200, "{}")
    \/ ReadBody(1)

SpecFiles == InitBatch /\ [][NextFiles]_vars

\* One client, translate calls with options one after the other.
TranslateOptionSets ==
    { [NoOptions EXCEPT !.targetLanguageCode = code, !.context = context,
                        !.glossary = glossary, !.formality = formality,
                        !.maxCharacters = maxCharacters] :
        code \in {Undefined, Str(""), Str("fr")},
        context \in {Undefined, Str(""), Str("formal")},
        glossary \in {Undefined, Str(""), Str("formal")},
        formality \in {Undefined, Str(""), Str("formal")},
        maxCharacters \in {[set |-> FALSE, value |-> 0], Val(0), Val(200)} }
    \cup
    { [NoOptions EXCEPT !.sourceLanguage = source, !.sourceLanguageCode = code,
                        !.includeTmInfo = tm, !.backtranslate = back,
                        !.includeRationale = rationale] :
        source \in {Undefined, Str("German")},
        code \in {Undefined, Str("de")},
        tm \in {[set |-> FALSE, value |-> FALSE], Val(FALSE)},
        back \in {[set |-> FALSE, value |-> FALSE], Val(TRUE)},
        rationale \in {[set |-> FALSE, value |-> FALSE], Val(FALSE)} }

NextTranslate ==
    \/ \E apiKey \in OptKeys : Construct(apiKey)
    \/ \E text \in Texts, lang \in Languages, options \in TranslateOptionSets :
          TranslateWith(text, lang, options)
    \/ \E raw \in BatchRaws : FetchResolve(1, 200, raw)
    \/ FetchFail(1)
    \/ ReadBody(1)

SpecTranslate == InitBatch /\ [][NextTranslate]_vars

(***************************************************************************)
(* The response shape adapters on their own: each is applied to every wire *)
(* map obtained from a well-formed response by removing keys.              *)
(***************************************************************************)
RECURSIVE SubMaps(_), ObjectSubMaps(_, _), ArraySubMaps(_)
\* Every value obtained from v by removing a subset of keys at any level.
SubMaps(v) ==
    CASE v.t = "object" -> {JObj(members) : members \in ObjectSubMaps(v.o, DOMAIN v.o)}
      [] v.t = "array" -> {JArr(elements) : elements \in ArraySubMaps(v.a)}
      [] OTHER -> {v}

ObjectSubMaps(members, keys) ==
    IF keys = {} THEN {<<>>}
    ELSE LET key == CHOOSE k \in keys : TRUE
             rest == ObjectSubMaps(members, keys \ {key})
         IN  rest \cup
             { [k \in DOMAIN r \cup {key} |-> IF k = key THEN x ELSE r[k]] :
                 r \in rest, x \in SubMaps(members[key]) }

ArraySubMaps(elements) ==
    IF elements = <<>> THEN {<<>>}
    ELSE { <<x>> \o r : x \in SubMaps(elements[1]), r \in ArraySubMaps(Tail(elements)) }

\* Well-formed responses, with wire arrays of up to MaxItems elements.
WireTmMatch(i) == JObj([tm_id |-> JStr("tm" \o ToString(i)), score |-> JNum(100 - i)])

WireEntry(i) ==
    JObj([id |-> JStr("e" \o ToString(i)),
          enabled |-> JBool(i % 2 = 0),
          priority |-> JNum(IF i % 2 = 0 THEN 75 ELSE 0)])

AdapterNames ==
    { "parseTranslation", "parseTMEntry", "parseTMList", "parseTMSearch",
      "parseTMStats", "parseStyleGuide", "parseLanguages", "parseBrandVoice",
      "parseImageResult", "parseInspection" }

\* The well-formed responses handed to the adapter `name`.
WireResponses(name) ==
    CASE name = "parseTranslation" ->
            { JObj([translated_text |-> JStr("Bonjour"),
                    metadata |-> JObj([word_count |-> JNum(1), cost |-> JNum(5)]),
                    tm_match |->
                        JObj([score |-> JNum(score),
                              top_matches |-> JArr([i \in 1..n |-> WireTmMatch(i)])])]) :
                score \in {0, 85}, n \in 0..MaxItems }
      [] name = "parseTMEntry" -> {WireEntry(1), WireEntry(2)}
      [] name = "parseTMList" ->
            { JObj([entries |-> JArr([i \in 1..n |-> WireEntry(i)]),
                    total |-> JNum(40), offset |-> JNum(20), limit |-> JNum(10)]) :
                n \in 0..MaxItems }
      [] name = "parseTMSearch" ->
            { JObj([matches |-> JArr([i \in 1..n |-> WireTmMatch(i)])]) :
                n \in 0..MaxItems }
      [] name = "parseTMStats" ->
            { JObj([total |-> JNum(3), enabled |-> JNum(2), disabled |-> JNum(1),
                    by_source |-> JObj([manual |-> JNum(3)])]) }
      [] name = "parseStyleGuide" ->
            { JObj([id |-> JNum(7), title |-> JStr("Tone"),
                    content |-> JStr("Be brief"), is_enabled |-> JBool(FALSE),
                    display_order |-> JNum(1)]) }
      [] name = "parseLanguages" ->
            { JObj([languages |->
                      JArr([i \in 1..n |->
                              JObj([id |-> JNum(i), language_code |-> JStr("fr"),
                                    formality |-> JStr("formal")])])]) :
                n \in 0..MaxItems }
      [] name = "parseBrandVoice" ->
            { JObj([prompt |-> JStr("Friendly"), exists |-> JBool(TRUE),
                    cached |-> JBool(FALSE)]) }
      [] name = "parseImageResult" ->
            { JObj([images |->
                      JArr([i \in 1..n |-> JObj([image_base64 |-> JStr("aGk=")])]),
                    metadata |-> JObj([cost |-> JNum(10), num_images |-> JNum(n)])]) :
                n \in 0..MaxItems }
      [] name = "parseInspection" ->
            { JObj([verdict |-> JStr("UNSAFE"),
                    affected_countries |->
                      JArr([i \in 1..n |->
                              JObj([country |-> JStr("FR"),
                                    issue |-> JStr("gesture")])])]) :
                n \in 0..MaxItems }

\* The inputs of the adapters: data is handed to the adapter named input.
Input(name, data) ==
    [name |-> "none", input |-> name, data |-> data, out |-> JsUndefined]

ParseInputs ==
    UNION { UNION { {Input(name, data) : data \in SubMaps(response)} :
                      response \in WireResponses(name) } :
              name \in AdapterNames }

\* The result of the adapter `name` on data; listTmEntries passes its own
\* offset and limit to parseTMList (client.ts 440-453).
adapt(name, data) ==
    CASE name = "parseTranslation" -> parseTranslation(data)
      [] name = "parseTMEntry" -> parseTMEntry(data)
      [] name = "parseTMList" -> parseTMList(data, 0, 100)
      [] name = "parseTMSearch" -> parseTMSearch(data)
      [] name = "parseTMStats" -> parseTMStats(data)
      [] name = "parseStyleGuide" -> parseStyleGuide(data)
      [] name = "parseLanguages" -> parseLanguages(data)
      [] name = "parseBrandVoice" -> parseBrandVoice(data)
      [] name = "parseImageResult" -> parseImageResult(data)
      [] name = "parseInspection" -> parseInspection(data)

\* The adapter `name` is applied to the data it was handed.
Parse(name) ==
    /\ adapter.name = "none"
    /\ adapter.input = name
    /\ adapter' = [adapter EXCEPT !.name = name, !.out = adapt(name, adapter.data)]
    /\ UNCHANGED <<env, envUrl, client, calls, batch>>

InitParse ==
    /\ env = Undefined
    /\ envUrl = UndefinedUrl
    /\ client = NoClient
    /\ calls = [c \in Slots |-> IdleCall]
    /\ batch = NoBatch
    /\ adapter \in ParseInputs

NextParse == \E name \in AdapterNames : Parse(name)

SpecParse == InitParse /\ [][NextParse]_vars

(***************************************************************************)
(* Properties.                                                             *)
(***************************************************************************)
Settled(c) == calls[c].pc = "settled"

\* The call has received a response (status line) from the server.
Responded(c) == calls[c].status # 0

Is2xx(status) == status >= 200 /\ status < 300

\* The status table of the specification (section 4.1).
TableKind(status) ==
    CASE status = 401 -> "AuthenticationError"
      [] status = 402 -> "InsufficientCreditsError"
      [] status \in {400, 422} -> "ValidationError"
      [] status = 404 -> "NotFoundError"
      [] status = 429 -> "RateLimitError"
      [] status >= 400 /\ status < 500 -> "ValidationError"
      [] status >= 500 -> "ServerError"
      [] OTHER -> Absent

\* C1: every response with a status outside 200-299 makes the request fail
\* with the error kind the status table gives for that status.
C1_StatusTable ==
    \A c \in Slots :
        (Settled(c) /\ Responded(c) /\ ~Is2xx(calls[c].status)
            /\ TableKind(calls[c].status) # Absent)
        => /\ calls[c].result.state = "rejected"
           /\ calls[c].result.error.kind = TableKind(calls[c].status)

\* C2: an operation that fails because of a received error response throws
\* an error whose statusCode is the received status and whose body is the
\* response body the transport parsed.
C2_ErrorCarriesResponse ==
    \A c \in Slots :
        (Settled(c) /\ Responded(c) /\ ~Is2xx(calls[c].status)
            /\ calls[c].opResult.state = "rejected")
        => /\ calls[c].opResult.error.hasStatus
           /\ calls[c].opResult.error.statusCode = calls[c].status
           /\ calls[c].opResult.error.hasBody
           /\ calls[c].opResult.error.body = calls[c].respBody

\* C3: request returns a value only for a status in 200-299, and then the
\* parsed body unchanged; for every other status it raises one of the six
\* typed errors.
C3_OnlySuccessReturnsBody ==
    \A c \in Slots :
        (Settled(c) /\ Responded(c))
        => /\ calls[c].result.state = "fulfilled"
                => /\ Is2xx(calls[c].status)
                   /\ calls[c].result.value = calls[c].respBody
           /\ ~Is2xx(calls[c].status)
                => /\ calls[c].result.state = "rejected"
                   /\ calls[c].result.error.kind \in TypedKinds

\* C4: a body that arrived in full and is not valid JSON is replaced by
\* {detail: <the raw text the server sent>}, and the status alone decides
\* the outcome.
C4_NonJsonBodyCaptured ==
    \A c \in Slots :
        (Settled(c) /\ calls[c].bodyRead = "complete"
            /\ JsonParse(calls[c].raw) = ParseFailure)
        => /\ calls[c].respBody = JObject(calls[c].raw, Absent, Absent, Absent)
           /\ calls[c].result = raiseForStatus(calls[c].status, calls[c].respBody)

BatchSize == Len(batch.texts)

\* C5: translateBatch has one translate request in flight per text from the
\* moment it is called, and when all succeed its result has the length of
\* texts and holds at i the result of the request for texts[i], whatever
\* the order in which the calls settled.
C5_BatchInOrder ==
    batch.active =>
        /\ \A i \in 1..BatchSize :
              /\ calls[i].fetches = 1
              /\ calls[i].op = "translate"
              /\ calls[i].req.method = "POST"
              /\ calls[i].req.path = "/text/culturalize"
              /\ <<"text", Quote(batch.texts[i])>> \in calls[i].req.body
        /\ \A i \in Slots \ (1..BatchSize) : calls[i].fetches = 0
        /\ (\A i \in 1..BatchSize : calls[i].opResult.state = "fulfilled")
              => /\ batch.result.state = "fulfilled"
                 /\ Len(batch.result.value) = BatchSize
                 /\ \A i \in 1..BatchSize :
                       batch.result.value[i] =
                           translationOf(calls[i].respBody).value

\* Witness of C5: a batch of two texts fulfilled with two different
\* translations, the second call having settled first.
C5_Witness ==
    /\ batch.active
    /\ BatchSize = 2
    /\ batch.order = <<2, 1>>
    /\ batch.result.state = "fulfilled"
    /\ batch.result.value[1] # batch.result.value[2]

\* The positions in batch.order of the calls that failed.
FailedAt == {k \in 1..Len(batch.order) :
                calls[batch.order[k]].opResult.state = "rejected"}

FirstFailed == batch.order[CHOOSE k \in FailedAt : \A j \in FailedAt : k <= j]

\* C6: once a translate call of a batch has failed, translateBatch has
\* failed with the failure of the first call that failed and has no result
\* value, however many other calls succeeded before or after.
C6_BatchFailsWhole ==
    (batch.active /\ FailedAt # {})
        => /\ batch.result.state = "rejected"
           /\ batch.result.value = NoResults
           /\ batch.result.error = calls[FirstFailed].opResult.error

\* Witness of C6: a call fails after another call of the batch succeeded.
C6_Witness ==
    /\ batch.active
    /\ Len(batch.order) >= 2
    /\ calls[batch.order[1]].opResult.state = "fulfilled"
    /\ calls[batch.order[2]].opResult.state = "rejected"
    /\ batch.result.state = "rejected"

\* C7: an invocation of request has called fetch exactly once, while it is
\* in flight and after it settled with whatever outcome.
C7_OneFetchPerRequest ==
    \A c \in Slots :
        calls[c].req # NoRequest => calls[c].fetches = 1

\* Witness of C7: a request settled by a transport failure, not re-sent.
C7_Witness ==
    \E c \in Slots :
        /\ Settled(c)
        /\ calls[c].req # NoRequest
        /\ calls[c].result.state = "rejected"
        /\ calls[c].result.error.message = "fetch failed"

\* C8: a call whose timeout timer has fired settles as a failure, never
\* with a success value.
C8_TimeoutFails ==
    \A c \in Slots :
        (Settled(c) /\ calls[c].timer = "fired")
        => /\ calls[c].result.state = "rejected"
           /\ calls[c].opResult.state = "rejected"

NoFetchYet == \A c \in Slots : calls[c].fetches = 0

MissingKeyFailure ==
    /\ client.state = "failed"
    /\ client.error.kind = "AuthenticationError"
    /\ ~client.error.hasStatus
    /\ NoFetchYet

\* C9 as stated: without an explicit key, construction fails with an
\* AuthenticationError without status code and without a request when
\* NATIV_API_KEY is unset, and succeeds when NATIV_API_KEY is set.
C9_AsStated ==
    (client.state # "none" /\ ~client.optKey.set)
    => /\ ~env.set => MissingKeyFailure
       /\ env.set => client.state = "ready"

\* C9 amended: ... and succeeds when NATIV_API_KEY is set to a non-empty
\* string; an empty NATIV_API_KEY fails like an unset one.
C9_Construction ==
    (client.state # "none" /\ ~client.optKey.set)
    => /\ ~Truthy(env) => MissingKeyFailure
       /\ Truthy(env) => client.state = "ready"

\* Witness of C9: construction without a key and without NATIV_API_KEY.
C9_Witness ==
    /\ client.state = "failed"
    /\ ~client.optKey.set
    /\ ~env.set

\* The fields an update supplies, under their wire names.
SuppliedFields(update) ==
    {f \in {<<"target_text", Quote(update.targetText.value)>>,
             <<"enabled", BoolText(update.enabled.value)>>} :
        \/ f[1] = "target_text" /\ update.targetText.set
        \/ f[1] = "enabled" /\ update.enabled.set}

\* C10: updateTmEntry with neither targetText nor enabled fails with a
\* ValidationError without status code and makes no request; with at least
\* one of them it makes one PATCH request whose body holds exactly the
\* supplied fields.
C10_UpdateTmEntry ==
    \A c \in Slots :
        calls[c].op = "updateTmEntry" =>
            LET u == calls[c].update
            IN  /\ (~u.targetText.set /\ ~u.enabled.set)
                     => /\ Settled(c)
                        /\ calls[c].opResult.state = "rejected"
                        /\ calls[c].opResult.error.kind = "ValidationError"
                        /\ ~calls[c].opResult.error.hasStatus
                        /\ calls[c].fetches = 0
                        /\ calls[c].req = NoRequest
                /\ (u.targetText.set \/ u.enabled.set)
                     => /\ calls[c].fetches = 1
                        /\ calls[c].req.method = "PATCH"
                        /\ calls[c].req.bodyKind = "json"
                        /\ calls[c].req.body = SuppliedFields(u)

\* Witness of C10: an update without fields has been rejected.
C10_Witness ==
    \E c \in Slots :
        /\ calls[c].op = "updateTmEntry"
        /\ calls[c].update = NoUpdate
        /\ Settled(c)

(***************************************************************************)
(* C11.                                                                    *)
(***************************************************************************)
Issued(c) == calls[c].req # NoRequest

\* The base URL configured at construction.
ConfiguredBase ==
    stripTrailingSlashes(
        Coalesce(client.optUrl, Coalesce(client.envUrl, DEFAULT_BASE_URL)))

UsesConfiguredBase(c) ==
    calls[c].req.url =
        Href([URL(calls[c].req.path, ConfiguredBase)
                EXCEPT !.search = calls[c].req.query])

\* C11 as stated: every request carries X-API-Key equal to the explicit
\* apiKey when one was passed, otherwise to the value NATIV_API_KEY had at
\* construction, and User-Agent nativ-node/<version>; the base URL is the
\* one configured at construction.
C11_AsStated ==
    \A c \in Slots :
        Issued(c) =>
            /\ calls[c].req.apiKey =
                   (IF client.optKey.set THEN client.optKey.value
                    ELSE client.envKey.value)
            /\ calls[c].req.userAgent = "nativ-node/" \o VERSION
            /\ UsesConfiguredBase(c)

\* C11, amended: every request carries X-API-Key equal to the explicit
\* apiKey when a non-empty one was passed, otherwise to the value
\* NATIV_API_KEY had at construction, and User-Agent nativ-node/<version>;
\* later changes of the environment change neither the key nor the base URL.
C11_KeyFromConstruction ==
    \A c \in Slots :
        Issued(c) =>
            /\ calls[c].req.apiKey =
                   (IF Truthy(client.optKey) THEN client.optKey.value
                    ELSE client.envKey.value)
            /\ calls[c].req.userAgent = "nativ-node/" \o VERSION
            /\ UsesConfiguredBase(c)

\* A request issued after both environment variables changed, by a client
\* that took its key and its base URL from the environment.
C11_Witness ==
    /\ Issued(1)
    /\ ~client.optKey.set
    /\ ~client.optUrl.set
    /\ client.envKey # env
    /\ client.envUrl # envUrl

(***************************************************************************)
(* C12.                                                                    *)
(***************************************************************************)
\* C12: the URL requested is the configured base URL (explicit baseUrl,
\* else NATIV_API_URL, else the default, trailing slashes stripped) followed
\* by the operation's path, followed by the string-coerced query parameters
\* when present; a base URL with a path component keeps it.
C12_UrlIsBasePlusPath ==
    \A c \in Slots :
        Issued(c) =>
            calls[c].req.url =
                UrlText(ConfiguredBase) \o calls[c].req.path
                \o (IF calls[c].req.query = <<>> THEN ""
                    ELSE "?" \o SearchText(calls[c].req.query))

(***************************************************************************)
(* C13.                                                                    *)
(***************************************************************************)
JsonAttached(c) == calls[c].req.bodyKind \in {"json", "both"}

FormAttached(c) == calls[c].req.bodyKind \in {"form", "both"}

JsonHeader(c) == calls[c].req.contentType = Str("application/json")

\* C13 as stated: every request has exactly one of a JSON body or a
\* multipart form attached, and Content-Type: application/json is set
\* exactly when the JSON body is attached.
C13_AsStated ==
    \A c \in Slots :
        Issued(c) =>
            /\ JsonAttached(c) # FormAttached(c)
            /\ JsonHeader(c) <=> JsonAttached(c)

\* C13, amended: every request has at most one of a JSON body or a
\* multipart form attached, never both, and Content-Type: application/json
\* is set exactly when the JSON body is attached.
C13_AtMostOneBody ==
    \A c \in Slots :
        Issued(c) =>
            /\ ~(JsonAttached(c) /\ FormAttached(c))
            /\ JsonHeader(c) <=> JsonAttached(c)
            /\ calls[c].req.contentType.set => JsonHeader(c)

\* A request with a multipart form was sent.
C13_Witness == Issued(1) /\ FormAttached(1)

(***************************************************************************)
(* C19.                                                                    *)
(***************************************************************************)
Resolved(c) == calls[c].image # NoFileInput

\* The content type the extension table gives a filename: the entry of its
\* extension, compared case-insensitively, and application/octet-stream
\* when the extension is unknown or the name has none.
TypeByExtension(name) ==
    IF Len(name) > 1 /\ toLowerCase(name[Len(name)]) \in DOMAIN ContentTypeMap
    THEN ContentTypeMap[toLowerCase(name[Len(name)])]
    ELSE "application/octet-stream"

\* C19: for a string path or a struct without contentType the resolved
\* content type is the table entry of the filename's extension, compared
\* case-insensitively, and application/octet-stream otherwise; a struct's
\* own contentType, when given, is used unchanged.
C19_ContentTypeByExtension ==
    \A c \in Slots :
        Resolved(c) =>
            /\ (calls[c].image.kind = "path"
                \/ (calls[c].image.kind = "struct" /\ ~calls[c].image.type.set))
               => calls[c].file.contentType = TypeByExtension(calls[c].image.name)
            /\ (calls[c].image.kind = "struct" /\ calls[c].image.type.set)
               => calls[c].file.contentType = calls[c].image.type.value

(***************************************************************************)
(* C14.                                                                    *)
(***************************************************************************)
\* C14: the message of an error raised for a non-2xx response is the
\* body's detail field when the body has one, otherwise its message field
\* when it has one, otherwise "HTTP <status>".
C14_ErrorMessage ==
    \A c \in Slots :
        (Settled(c) /\ Responded(c) /\ ~Is2xx(calls[c].status)
            /\ calls[c].result.state = "rejected")
        => calls[c].result.error.message =
              (IF calls[c].respBody.detail # Absent THEN calls[c].respBody.detail
               ELSE IF calls[c].respBody.message # Absent
                    THEN calls[c].respBody.message
               ELSE "HTTP " \o ToString(calls[c].status))

(***************************************************************************)
(* C15, C16, C17.                                                          *)
(***************************************************************************)
Has(v, key) == v.t = "object" /\ key \in DOMAIN v.o

\* The wire tm_match has a score greater than 0.
PositiveScore(data) ==
    /\ Has(data, "tm_match")
    /\ Has(data.o.tm_match, "score")
    /\ data.o.tm_match.o.score.n > 0

WireTopMatches(data) ==
    IF Has(data.o.tm_match, "top_matches")
    THEN data.o.tm_match.o.top_matches.a ELSE <<>>

\* C15: parseTranslation yields no tmMatch when the wire response has no
\* tm_match or one whose score is 0 or absent; it yields a tmMatch with the
\* wire score and one topMatches element per wire element, in order,
\* exactly when the score is greater than 0; no tmMatch has score 0.
C15_TmMatchOnlyWhenPositive ==
    adapter.name = "parseTranslation" =>
        LET data == adapter.data
            tmMatch == adapter.out.o.tmMatch
        IN  /\ adapter.out.t = "object"
            /\ ~PositiveScore(data) => tmMatch.t = "undefined"
            /\ PositiveScore(data) =>
                  /\ tmMatch.t = "object"
                  /\ tmMatch.o.score.t = "number"
                  /\ tmMatch.o.score.n = data.o.tm_match.o.score.n
                  /\ tmMatch.o.topMatches.t = "array"
                  /\ Len(tmMatch.o.topMatches.a) = Len(WireTopMatches(data))
                  /\ \A i \in 1..Len(WireTopMatches(data)) :
                        tmMatch.o.topMatches.a[i].o.tmId.s =
                            (IF Has(WireTopMatches(data)[i], "tm_id")
                             THEN WireTopMatches(data)[i].o.tm_id.s ELSE "")
            /\ tmMatch.t # "undefined" => tmMatch.o.score.n # 0

\* parseTranslation was applied to a response whose tm_match has score 0
\* and a top match.
C15_Witness ==
    /\ adapter.name = "parseTranslation"
    /\ Has(adapter.data, "tm_match")
    /\ Has(adapter.data.o.tm_match, "score")
    /\ adapter.data.o.tm_match.o.score.n = 0
    /\ Len(WireTopMatches(adapter.data)) > 0

\* The parsed entry has the wire's enabled and priority, and true and 50
\* for the keys the wire entry lacks.
EntryDefaults(wire, parsed) ==
    /\ parsed.t = "object"
    /\ parsed.o.enabled.t = "boolean"
    /\ parsed.o.enabled.b = (IF Has(wire, "enabled") THEN wire.o.enabled.b ELSE TRUE)
    /\ parsed.o.priority.t = "number"
    /\ parsed.o.priority.n = (IF Has(wire, "priority") THEN wire.o.priority.n ELSE 50)

\* C16: every parsed entry of a listTmEntries or addTmEntry response has
\* enabled = true when the wire entry has no enabled key and priority = 50
\* when it has no priority key, and the wire values otherwise (false and 0
\* included).
C16_EntryDefaults ==
    /\ adapter.name = "parseTMEntry" => EntryDefaults(adapter.data, adapter.out)
    /\ (adapter.name = "parseTMList" /\ Has(adapter.data, "entries")) =>
          /\ adapter.out.t = "object"
          /\ adapter.out.o.entries.t = "array"
          /\ Len(adapter.out.o.entries.a) = Len(adapter.data.o.entries.a)
          /\ \A i \in 1..Len(adapter.data.o.entries.a) :
                EntryDefaults(adapter.data.o.entries.a[i], adapter.out.o.entries.a[i])

\* A list was parsed with an entry that has enabled = false and no priority
\* key, and an entry that has priority = 0 and no enabled key.
C16_Witness ==
    /\ adapter.name = "parseTMList"
    /\ Has(adapter.data, "entries")
    /\ \E i, j \in 1..Len(adapter.data.o.entries.a) :
          /\ Has(adapter.data.o.entries.a[i], "enabled")
          /\ ~adapter.data.o.entries.a[i].o.enabled.b
          /\ ~Has(adapter.data.o.entries.a[i], "priority")
          /\ ~Has(adapter.data.o.entries.a[j], "enabled")

\* C17: every response shape adapter returns a result without throwing for
\* every wire map obtained from a well-formed response by removing keys at
\* any level, the empty map included.
C17_AdaptersNeverThrow ==
    adapter.name # "none" =>
        ~Threw(adapter.out)

\* parseTranslation was applied to the empty map.
C17_Witness ==
    /\ adapter.name = "parseTranslation"
    /\ adapter.data.t = "object"
    /\ DOMAIN adapter.data.o = {}

(***************************************************************************)
(* C18.                                                                    *)
(***************************************************************************)
TranslateIssued(c) == Issued(c) /\ calls[c].op = "translate"

BodyKeys(c) == {member[1] : member \in calls[c].req.body}

\* The body has the field `key` with the JSON text `json`, and once only.
BodyHas(c, key, json) ==
    /\ <<key, json>> \in calls[c].req.body
    /\ \A member \in calls[c].req.body : member[1] = key => member[2] = json

\* One POST to /text/culturalize whose JSON body has the eight fields that
\* are always sent, with the defaults of the options not supplied.
SendsRequiredFields(c) ==
    LET o == calls[c].options
    IN  /\ calls[c].fetches = 1
        /\ calls[c].req.method = "POST"
        /\ calls[c].req.path = "/text/culturalize"
        /\ calls[c].req.bodyKind = "json"
        /\ BodyHas(c, "text", Quote(calls[c].text))
        /\ BodyHas(c, "language", Quote(calls[c].language))
        /\ BodyHas(c, "source_language",
                   Quote(IF o.sourceLanguage.set THEN o.sourceLanguage.value
                         ELSE "English"))
        /\ BodyHas(c, "source_language_code",
                   Quote(IF o.sourceLanguageCode.set THEN o.sourceLanguageCode.value
                         ELSE "en"))
        /\ BodyHas(c, "tool", Quote("api"))
        /\ BodyHas(c, "include_tm_info",
                   BoolText(IF o.includeTmInfo.set THEN o.includeTmInfo.value ELSE TRUE))
        /\ BodyHas(c, "backtranslate",
                   BoolText(IF o.backtranslate.set THEN o.backtranslate.value ELSE FALSE))
        /\ BodyHas(c, "include_rationale",
                   BoolText(IF o.includeRationale.set THEN o.includeRationale.value
                            ELSE TRUE))

\* The body has the field `key` exactly when `sent`, and then with `json`.
SentExactlyWhen(c, key, sent, json) ==
    /\ key \in BodyKeys(c) <=> sent
    /\ sent => BodyHas(c, key, json)

\* C18 as stated: the body of translate always has the eight required
\* fields, and has each of language_code, context, glossary, formality and
\* max_characters exactly when the caller supplied the option, with the
\* supplied value.
C18_AsStated ==
    \A c \in Slots :
        TranslateIssued(c) =>
            LET o == calls[c].options
            IN  /\ SendsRequiredFields(c)
                /\ SentExactlyWhen(c, "language_code", o.targetLanguageCode.set,
                                   Quote(o.targetLanguageCode.value))
                /\ SentExactlyWhen(c, "context", o.context.set, Quote(o.context.value))
                /\ SentExactlyWhen(c, "glossary", o.glossary.set, Quote(o.glossary.value))
                /\ SentExactlyWhen(c, "formality", o.formality.set,
                                   Quote(o.formality.value))
                /\ SentExactlyWhen(c, "max_characters", o.maxCharacters.set,
                                   ToString(o.maxCharacters.value))

\* C18, amended: the body of translate always has the eight required
\* fields; it has each of language_code, context, glossary and formality
\* exactly when the caller supplied a non-empty string for the option, and
\* max_characters exactly when the caller supplied maxCharacters (0
\* included), each with the supplied value.
C18_TranslateBody ==
    \A c \in Slots :
        TranslateIssued(c) =>
            LET o == calls[c].options
            IN  /\ SendsRequiredFields(c)
                /\ SentExactlyWhen(c, "language_code",
                                   o.targetLanguageCode.set /\ o.targetLanguageCode.value # "",
                                   Quote(o.targetLanguageCode.value))
                /\ SentExactlyWhen(c, "context",
                                   o.context.set /\ o.context.value # "",
                                   Quote(o.context.value))
                /\ SentExactlyWhen(c, "glossary",
                                   o.glossary.set /\ o.glossary.value # "",
                                   Quote(o.glossary.value))
                /\ SentExactlyWhen(c, "formality",
                                   o.formality.set /\ o.formality.value # "",
                                   Quote(o.formality.value))
                /\ SentExactlyWhen(c, "max_characters", o.maxCharacters.set,
                                   ToString(o.maxCharacters.value))

\* translate was called with an empty context, a formality and
\* maxCharacters = 0.
C18_Witness ==
    /\ TranslateIssued(1)
    /\ calls[1].options.context = Str("")
    /\ calls[1].options.formality = Str("formal")
    /\ calls[1].options.maxCharacters = Val(0)

(***************************************************************************)
(* C20.                                                                    *)
(***************************************************************************)
InFlight(c) == calls[c].pc \in {"fetching", "reading"}

\* C20: concurrent calls are independent.  A step that changes one
\* in-flight call (its timer firing, its abort, its failure, its response)
\* leaves every other in-flight call as it was, and a call is only ever
\* aborted by its own timer.
C20_CallsIndependent ==
    [][ /\ \A c, d \in Slots :
              (c # d /\ InFlight(c) /\ InFlight(d) /\ calls'[c] # calls[c])
              => calls'[d] = calls[d]
        /\ \A d \in Slots : calls'[d].aborted => calls'[d].timer = "fired"
      ]_vars

\* The first member of a batch timed out and failed, and the second then
\* returned its translation.
C20_Witness ==
    /\ batch.active
    /\ batch.order = <<1, 2>>
    /\ calls[1].timer = "fired"
    /\ calls[1].result.state = "rejected"
    /\ calls[2].timer = "cleared"
    /\ calls[2].opResult.state = "fulfilled"

(***************************************************************************)
(* C21: the timeout timer of a settled call.                               *)
(***************************************************************************)
\* The timer of call c can still run its callback.
TimerPending(c) == calls[c].timer = "armed"

\* C21: whenever a request call has settled, by returning the body, by a
\* typed error for the status, by a transport failure or by the timeout,
\* its timer is no longer pending: it was cleared by the finally block or
\* had fired while the call was in flight.  A timer that is not pending
\* cannot fire, so no timer aborts anything after its call settled.
C21_TimerClearedOnSettle ==
    \A c \in Slots :
        Settled(c) =>
            /\ ~TimerPending(c)
            /\ ~ENABLED TimerFire(c)
            /\ Issued(c) => calls[c].timer \in {"cleared", "fired"}

\* A request that failed while its timer was still armed, and whose timer
\* was cleared on the way out.
C21_Witness ==
    /\ Settled(1)
    /\ Issued(1)
    /\ calls[1].result.state = "rejected"
    /\ calls[1].timer = "cleared"

(***************************************************************************)
(* C22: the error built for an error status, for every parsed body.        *)
(***************************************************************************)
\* C22: every response with a status outside 200-299 makes the operation
\* fail with one of the six typed subtypes of NativError, whatever the
\* body is: a JSON object, null, another JSON value, non-JSON text or
\* nothing; no runtime error is raised while the typed error is built.
C22_ErrorStatusIsTyped ==
    \A c \in Slots :
        (Settled(c) /\ Responded(c) /\ ~Is2xx(calls[c].status))
        => /\ calls[c].opResult.state = "rejected"
           /\ calls[c].opResult.error.kind \in TypedKinds

(***************************************************************************)
(* C23: a path that cannot be read.                                        *)
(***************************************************************************)
\* Call c is one of the operations that take an image.
TakesImage(c) == calls[c].op \in {"extractText", "culturalizeImage", "inspectImage"}

\* The image of call c is a string path that readFile rejects.
UnreadablePath(c) ==
    /\ calls[c].image.kind = "path"
    /\ readFile(calls[c].image.name).error # ""

\* C23: in extractText, culturalizeImage and inspectImage the file is
\* resolved before anything is sent.  When the image is a string path that
\* does not exist or cannot be read, the operation fails with the error of
\* the file system itself, which is not a NativError, and no request is
\* issued; a request that was issued carries a resolved file.
C23_FileResolvedFirst ==
    \A c \in Slots :
        TakesImage(c) =>
            /\ UnreadablePath(c) =>
                 /\ Settled(c)
                 /\ calls[c].opResult.state = "rejected"
                 /\ calls[c].opResult.error.message = readFile(calls[c].image.name).error
                 /\ calls[c].opResult.error.kind \notin TypedKinds
                 /\ calls[c].fetches = 0
                 /\ ~Issued(c)
            /\ Issued(c) =>
                 /\ calls[c].file.error = ""
                 /\ calls[c].req.form.file = filePart(calls[c].file)

\* inspectImage of a path that does not exist has failed.
C23_Witness ==
    /\ calls[1].op = "inspectImage"
    /\ calls[1].image.name = <<"missing", "png">>
    /\ UnreadablePath(1)
    /\ Settled(1)
    /\ calls[1].fetches = 0

(***************************************************************************)
(* C24: the bytes of the file part.                                        *)
(***************************************************************************)
\* C24: for every variant of file input the file part of the form holds
\* exactly the bytes of the resolved file, also when the resolved Buffer is
\* a view onto a larger ArrayBuffer; and the resolved file of a Buffer, a
\* Uint8Array, a Blob or a struct holds the bytes that were handed in.
C24_FilePartBytes ==
    \A c \in Slots :
        (TakesImage(c) /\ Issued(c)) =>
            /\ calls[c].req.form.file.bytes = Contents(calls[c].file.data)
            /\ calls[c].image.kind # "path" =>
                 Contents(calls[c].file.data) = Contents(calls[c].image.data)

(***************************************************************************)
(* C25: filenames without an extension.                                    *)
(***************************************************************************)
\* The content type of the file of call c was guessed from its filename.
Guessed(c) ==
    /\ Resolved(c)
    /\ calls[c].file.error = ""
    /\ \/ calls[c].image.kind = "path"
       \/ calls[c].image.kind = "struct" /\ ~calls[c].image.type.set

\* C25: guessContentType returns application/octet-stream for every
\* filename without a dot, also when the whole name is a word of the
\* extension table such as "png" or "pdf".
C25_NoExtensionIsOctetStream ==
    \A c \in Slots :
        (Guessed(c) /\ Len(calls[c].image.name) = 1) =>
            /\ guessContentType(calls[c].image.name) = "application/octet-stream"
            /\ calls[c].file.contentType = "application/octet-stream"

====
